---- MODULE Spec2Model ----
(***************************************************************************)
(* virtual-printer.py: the ingestion pipeline of the virtual printer.      *)
(* Two threads share the failure-queue file, the stored PDFs, the bucket   *)
(* and the invoice table: the watchdog observer thread runs                *)
(* PDFHandler.on_created for one file event at a time, and the main thread *)
(* runs retry_failed_uploads once per tick of main's loop.                 *)
(***************************************************************************)
EXTENDS Integers, Sequences, FiniteSets, TLC

(* ---------------------------- bounds ---------------------------------- *)
\* .pdf files that the spooler writes in one run of the program
MaxDocs == 2
\* seconds in one calendar day of the model's clock
DayLen == 3

(* ---------------------------- strings --------------------------------- *)
\* Text that the code inspects (file names, extracted labels) is a sequence
\* of one-character strings.
LowerTable ==
       "A" :> "a" @@ "B" :> "b" @@ "C" :> "c" @@ "D" :> "d" @@ "E" :> "e" @@ "F" :> "f"
    @@ "G" :> "g" @@ "H" :> "h" @@ "I" :> "i" @@ "J" :> "j" @@ "K" :> "k" @@ "L" :> "l"
    @@ "M" :> "m" @@ "N" :> "n" @@ "O" :> "o" @@ "P" :> "p" @@ "Q" :> "q" @@ "R" :> "r"
    @@ "S" :> "s" @@ "T" :> "t" @@ "U" :> "u" @@ "V" :> "v" @@ "W" :> "w" @@ "X" :> "x"
    @@ "Y" :> "y" @@ "Z" :> "z"

\* str.lower() on one character
LowerChar(c) == IF c \in DOMAIN LowerTable THEN LowerTable[c] ELSE c

\* str.lower()
Lower(s) == [i \in 1..Len(s) |-> LowerChar(s[i])]

\* whether sub occurs in s at position i (1-based)
OccursAt(sub, s, i) ==
    /\ i >= 1
    /\ i + Len(sub) - 1 <= Len(s)
    /\ \A j \in 1..Len(sub) : s[i + j - 1] = sub[j]

\* the `in` operator on two strings
Contains(sub, s) == \E i \in 1..(Len(s) + 1) : OccursAt(sub, s, i)

\* str.endswith
EndsWith(s, suffix) ==
    /\ Len(suffix) <= Len(s)
    /\ OccursAt(suffix, s, Len(s) - Len(suffix) + 1)

\* s.split(sep)[0]: the text before the first occurrence of sep, or all of s
SplitFirst(s, sep) ==
    LET hits == {i \in 1..Len(s) : OccursAt(sep, s, i)}
    IN  IF hits = {} THEN s
        ELSE SubSeq(s, 1, (CHOOSE i \in hits : \A j \in hits : i <= j) - 1)

(* ------------------------- field normalizer --------------------------- *)
\* The 14 canonical keys, in the order of the returned dict.
Fields ==
    << "Invoice Number", "Invoice Date", "GSTIN", "Buyer Name", "Buyer Contact",
       "Total Amount", "HSN Code", "CGST", "SGST", "Bank Name", "Account Number",
       "IFSC Code", "QUANTITY", "DESCRIPTION" >>

FieldSet == {Fields[i] : i \in 1..Len(Fields)}

\* The label synonyms that extract_invoice_fields passes for each key.
Synonyms ==
       "Invoice Number" :> << <<"I","n","v","o","i","c","e"," ","N","o">>,
            <<"I","n","v","o","i","c","e"," ","N","u","m","b","e","r">> >>
    @@ "Invoice Date" :> << <<"D","a","t","e","d">>,
            <<"I","n","v","o","i","c","e"," ","D","a","t","e">>,
            <<"D","a","t","e">> >>
    @@ "GSTIN" :> << <<"G","S","T","I","N">> >>
    @@ "Buyer Name" :> << <<"B","u","y","e","r">>,
            <<"B","I","L","L","E","D"," ","T","O">>,
            <<"B","i","l","l"," ","t","o">>,
            <<"B","u","y","e","r"," ","(","B","i","l","l"," ","t","o",")">>,
            <<"P","a","r","t","y">>,
            <<"C","u","s","t","o","m","e","r">>,
            <<"C","o","n","s","i","g","n","e","e">> >>
    @@ "Buyer Contact" :> << <<"M","o","b","i","l","e">>,
            <<"C","o","n","t","a","c","t">> >>
    @@ "Total Amount" :> << <<"T","o","t","a","l">>,
            <<"T","o","t","a","l"," ","A","m","o","u","n","t">>,
            <<"G","r","a","n","d","T","o","t","a","l">>,
            <<"I","n","v","o","i","c","e"," ","T","o","t","a","l">>,
            <<"A","m","o","u","n","t"," ","P","a","y","a","b","l","e">> >>
    @@ "HSN Code" :> << <<"H","S","N">>,
            <<"H","S","N","/","S","A","C">> >>
    @@ "CGST" :> << <<"C","G","S","T">> >>
    @@ "SGST" :> << <<"S","G","S","T">> >>
    @@ "Bank Name" :> << <<"B","a","n","k"," ","N","a","m","e">> >>
    @@ "Account Number" :> << <<"A","c","c","o","u","n","t"," ","N","o">>,
            <<"A","/","c"," ","N","o">> >>
    @@ "IFSC Code" :> << <<"I","F","S","C">>,
            <<"I","F","S","C"," ","C","o","d","e">> >>
    @@ "QUANTITY" :> << <<"Q","u","a","n","t","i","t","y">>,
            <<"Q","t","y">> >>
    @@ "DESCRIPTION" :> << <<"D","e","s","c","r","i","p","t","i","o","n"," ","o","f"," ","G","o","o","d","s">>,
            <<"D","e","s","c","r","i","p","t","i","o","n">> >>

\* a bug: the last matching key of the mapping wins, not the first
LastMatch(kvs, possibilities, k) ==
    LET hits == {i \in k..Len(kvs) :
                    \E n \in 1..Len(possibilities) :
                        Contains(Lower(possibilities[n]), Lower(kvs[i].key))}
    IN  IF hits = {} THEN ""
        ELSE kvs[CHOOSE i \in hits : \A j \in hits : j <= i].value

\* A raw mapping (a dict) is a sequence of [key, value] entries in insertion
\* order, with distinct keys.
RECURSIVE FirstMatch(_, _, _)
FirstMatch(kvs, possibilities, k) ==
    IF k > Len(kvs) THEN ""
    ELSE IF \E n \in 1..Len(possibilities) :
                Contains(Lower(possibilities[n]), Lower(kvs[k].key))
         THEN kvs[k].value
         ELSE FirstMatch(kvs, possibilities, k + 1)

match_key(kvs, possibilities) == FirstMatch(kvs, possibilities, 1)

extract_invoice_fields(kvs) == [f \in FieldSet |-> match_key(kvs, Synonyms[f])]

\* a bug: `if data:` in place of `if any(data.values()):`
AnyValueOfDict(data) == DOMAIN data # {}

\* any(data.values())
AnyValue(data) == \E f \in DOMAIN data : data[f] # ""

(* ------------------------------ time ---------------------------------- *)
\* The clock counts seconds.  strftime("%Y-%m-%d_%H-%M-%S") is the pair of
\* the calendar day and the time of day, so split("_")[0] is its first part.
Strftime(t) == << t \div DayLen, t % DayLen >>

\* now.strftime("%Y/%m/%d")
DateFolder(t) == t \div DayLen

(* --------------------------- failure queue ---------------------------- *)
\* The text of failed_uploads.json is a sequence of tokens.  An item is the
\* dict {"path": ..., "created_time": ...}.
RECURSIVE DumpItems(_)
DumpItems(items) ==
    IF items = << >> THEN << >>
    ELSE << "{", "path", Head(items).path,
            "created_time", Head(items).created_time, "}" >>
         \o DumpItems(Tail(items))

\* json.dump(data, f, indent=2)
Dump(items) == << "[" >> \o DumpItems(items) \o << "]" >>

\* json.load(f): ok is FALSE where json.load raises JSONDecodeError
Parse(text) ==
    LET n == (Len(text) - 2) \div 6
        wellFormed ==
            /\ Len(text) >= 2
            /\ (Len(text) - 2) % 6 = 0
            /\ text[1] = "["
            /\ text[Len(text)] = "]"
            /\ \A i \in 1..n :
                  /\ text[6 * i - 4] = "{"
                  /\ text[6 * i - 3] = "path"
                  /\ text[6 * i - 1] = "created_time"
                  /\ text[6 * i + 1] = "}"
    IN  IF wellFormed
        THEN [ok |-> TRUE,
              value |-> [i \in 1..n |-> [path |-> text[6 * i - 2],
                                         created_time |-> text[6 * i]]]]
        ELSE [ok |-> FALSE, value |-> << >>]

\* f.write at the start of a file whose text is old: a handle opened with
\* mode 'w' writes from position 0, over what another handle has written
\* since the open emptied the file, and leaves what lies beyond its own text.
Overlay(new, old) == new \o SubSeq(old, Len(new) + 1, Len(old))

\* load_failed_uploads() on the file f = [exists, text]
load_failed_uploads(f) ==
    IF f.exists THEN Parse(f.text) ELSE [ok |-> TRUE, value |-> << >>]

(* ------------------------------ upload -------------------------------- *)
\* a bug: the key is built from the time of the upload, not from created_time
S3KeyOfNow(pdf_path, created_time, now) ==
    [date_folder |-> Strftime(now)[1], created_time |-> Strftime(now),
     filename |-> pdf_path.name]

\* The storage key that upload_pdf_to_s3 builds; created_time = << >> is None.
S3Key(pdf_path, created_time, now) ==
    LET ct == IF created_time = << >> THEN Strftime(now) ELSE created_time
    IN  [date_folder |-> ct[1], created_time |-> ct, filename |-> pdf_path.name]

(* --------------------------- the documents ---------------------------- *)
DotPdf == << ".", "p", "d", "f" >>
Marker == << "_", "_" >>

\* names the spooler gives the files it writes into the watched directory
SpoolName == << "a", "_", "_", "1", ".", "p", "d", "f" >>
PlainName == << "b", ".", "p", "d", "f" >>
TextName  == << "c", ".", "t", "x", "t" >>

\* what the extraction service reads from a document
InvoiceKvs ==
    << [key |-> << "I", "n", "v", "o", "i", "c", "e", " ", "N", "o" >>,
        value |-> "INV-1"] >>
BlankKvs == << [key |-> << "G", "S", "T", "I", "N" >>, value |-> ""] >>
EmptyKvs == << >>

\* the file events the watcher can deliver
Events ==
    {[is_directory |-> FALSE, name |-> SpoolName, kvs |-> InvoiceKvs],
     [is_directory |-> FALSE, name |-> PlainName, kvs |-> BlankKvs],
     [is_directory |-> FALSE, name |-> TextName, kvs |-> EmptyKvs],
     [is_directory |-> TRUE, name |-> PlainName, kvs |-> EmptyKvs]}

(* ------------------------------ state --------------------------------- *)
VARIABLES
    clock,            \* the wall clock, in seconds
    physical_printer, \* whether detect_physical_printer found a device
    docs,             \* the .pdf file events delivered so far, in order
    result,           \* per event, what the run of on_created left in the
                      \* log: the lines it wrote, how it ended, and the
                      \* dest_path and created_time it had
    stored,           \* the files under the output directory: path -> document
    queueFile,        \* failed_uploads.json: [exists, text]
    s3,               \* the bucket: storage key -> document
    excel,            \* the rows of invoices.xlsx
    hpc,              \* on_created: where the handler is
    dest_path,        \* on_created: << >> while unbound, else << path >>
    created_time,     \* on_created: << >> while unbound
    h_s3_key,         \* on_created: s3_key, << >> while unbound
    h_data,           \* on_created: data, << >> while unbound
    h_df,             \* on_created: df_existing of save_to_excel, << >> while unbound
    failed_list,      \* on_created: the list loaded in the except block
    e,                \* on_created: the message of the exception caught, "" if none
    mpc,              \* main: where the main thread is
    failed,           \* retry_failed_uploads: the loaded list
    still_failed,     \* retry_failed_uploads: the rebuilt list
    idx,              \* retry_failed_uploads: position of the for loop
    m_s3_key,         \* retry_failed_uploads: s3_key of the current item
    m_data,           \* retry_failed_uploads: data of the current item
    m_df,             \* retry_failed_uploads: df_existing of save_to_excel
    verdict,          \* retry_failed_uploads: what the pass logged per item
    enqueued,         \* items that on_created has saved
    succeeded,        \* items that a retry pass dropped after a success
    dropped           \* items that a finished pass dropped as missing

hvars == << hpc, dest_path, created_time, h_s3_key, h_data, h_df,
            failed_list, e >>
mvars == << mpc, failed, still_failed, idx, m_s3_key, m_data, m_df,
            verdict >>
shared == << clock, physical_printer, docs, result, stored, queueFile, s3,
             excel, enqueued, succeeded, dropped >>
vars == << hvars, mvars, shared >>

NoFiles == [p \in {} |-> 0]

\* main has found a device (lines 356-359).  Without one, on_created skips
\* the forwarding and goes on to the gate, as it does with a device whose lp
\* runs: the runs without a device are among the runs with one.
Init ==
    /\ clock = 0
    /\ physical_printer = TRUE
    /\ docs = << >>
    /\ result = << >>
    /\ stored = NoFiles
    /\ queueFile = [exists |-> FALSE, text |-> << >>]
    /\ s3 = NoFiles
    /\ excel = << >>
    /\ hpc = "idle"
    /\ dest_path = << >>
    /\ created_time = << >>
    /\ h_s3_key = << >>
    /\ h_data = << >>
    /\ h_df = << >>
    /\ failed_list = << >>
    /\ e = ""
    /\ mpc = "sleep"
    /\ failed = << >>
    /\ still_failed = << >>
    /\ idx = 1
    /\ m_s3_key = << >>
    /\ m_data = << >>
    /\ m_df = << >>
    /\ verdict = << >>
    /\ enqueued = {}
    /\ succeeded = {}
    /\ dropped = {}

\* the process is alive: an exception that leaves main ends it
Running == mpc # "crashed"

\* the event the handler is working on
Cur == Len(docs)

\* on_created writes log lines and goes on
Logged(lines) == result' = [result EXCEPT ![Cur].log = @ \cup lines]

\* on_created writes log lines and returns ("returned", or "queued" after
\* the except block), or an exception leaves it ("raised"): its locals are
\* gone
Return(how, lines) ==
    /\ result' = [result EXCEPT ![Cur] = [log |-> @.log \cup lines,
                                          how |-> how,
                                          dest_path |-> dest_path,
                                          created_time |-> created_time]]
    /\ hpc' = "idle"
    /\ dest_path' = << >>
    /\ created_time' = << >>
    /\ h_s3_key' = << >>
    /\ h_data' = << >>
    /\ h_df' = << >>
    /\ failed_list' = << >>
    /\ e' = ""

\* an exception with this message is raised inside the try of line 256
Raise(message) ==
    /\ hpc' = "except"
    /\ e' = message

(* ----------------- PDFHandler.on_created (watcher thread) -------------- *)
\* Lines 254-257: a file event arrives.  Directories and names that do not
\* end in .pdf are ignored, and nothing changes; otherwise the handler
\* sleeps one second.
on_created(event) ==
    /\ Running
    /\ hpc = "idle"
    /\ Len(docs) < MaxDocs
    /\ IF ~event.is_directory /\ EndsWith(event.name, DotPdf)
       THEN /\ hpc' = "relocate"
            /\ docs' = Append(docs, event)
            /\ result' = Append(result, [log |-> {}, how |-> "running",
                                         dest_path |-> << >>,
                                         created_time |-> << >>])
            /\ clock' = clock + 1
       ELSE UNCHANGED << hpc, docs, result, clock >>
    /\ UNCHANGED << dest_path, created_time, h_s3_key, h_data, h_df,
                    failed_list, e, mvars, physical_printer, stored, queueFile,
                    s3, excel, enqueued, succeeded, dropped >>

\* raw_name.split('__')[0]
CleanName(raw_name) == SplitFirst(raw_name, Marker)

\* os.path.join(self.output_dir, date_folder, filename)
DestPath(raw_name, now) == [dir |-> DateFolder(now), name |-> CleanName(raw_name)]

\* a bug: created_time is taken before the move instead of after the chmod
RelocateStampsFirst(fault) ==
    /\ Running
    /\ hpc = "relocate"
    /\ LET dest == [dir |-> DateFolder(clock),
                    name |-> SplitFirst(docs[Cur].name, Marker)]
       IN  /\ dest_path' = IF fault = "makedirs" THEN << >> ELSE << dest >>
           /\ stored' = IF fault \in {"ok", "chmod"}
                        THEN (dest :> Cur) @@ stored
                        ELSE stored
    /\ created_time' = Strftime(clock)
    /\ IF fault = "ok"
       THEN hpc' = "forward" /\ e' = e
       ELSE Raise("Relocate failed")
    /\ UNCHANGED << h_s3_key, h_data, h_df, failed_list, mvars, clock,
                    physical_printer, docs, result, queueFile, s3, excel,
                    enqueued, succeeded, dropped >>

\* Lines 260-278: name the destination, create the dated folder, move, chmod,
\* take created_time.  fault names the call that raises, "ok" if none does.
\* A move onto an existing path replaces the file that was there.
Relocate(fault) ==
    /\ Running
    /\ hpc = "relocate"
    /\ LET dest == DestPath(docs[Cur].name, clock)
       IN  /\ dest_path' = IF fault = "makedirs" THEN << >> ELSE << dest >>
           /\ stored' = IF fault \in {"ok", "chmod"}
                        THEN (dest :> Cur) @@ stored
                        ELSE stored
    /\ created_time' = IF fault = "ok" THEN Strftime(clock) ELSE << >>
    /\ IF fault = "ok"
       THEN hpc' = "forward" /\ e' = e
       ELSE Raise("Relocate failed")
    /\ UNCHANGED << h_s3_key, h_data, h_df, failed_list, mvars, clock,
                    physical_printer, docs, result, queueFile, s3, excel,
                    enqueued, succeeded, dropped >>

\* a bug: the upload follows the forwarding without the connectivity gate
ForwardThenUpload(rc) ==
    /\ Running
    /\ hpc = "forward"
    /\ IF physical_printer /\ rc = "oserror"
       THEN Raise("lp failed")
       ELSE hpc' = "upload" /\ e' = e
    /\ UNCHANGED << dest_path, created_time, h_s3_key, h_data, h_df,
                    failed_list, mvars, shared >>

\* Lines 286-290: subprocess.run(["lp", ...]) without check: a non-zero exit
\* status is not looked at, but a failure to start lp raises OSError.
Forward(rc) ==
    /\ Running
    /\ hpc = "forward"
    /\ IF physical_printer /\ rc = "oserror"
       THEN Raise("lp failed")
       ELSE hpc' = "gate" /\ e' = e
    /\ UNCHANGED << dest_path, created_time, h_s3_key, h_data, h_df,
                    failed_list, mvars, shared >>

\* Line 292 and 308-309: is_connected(), else raise Exception("Offline")
Gate(connected) ==
    /\ Running
    /\ hpc = "gate"
    /\ IF connected
       THEN hpc' = "upload" /\ e' = e
       ELSE Raise("Offline")
    /\ UNCHANGED << dest_path, created_time, h_s3_key, h_data, h_df,
                    failed_list, mvars, shared >>

\* Lines 293-294 and 306-307: upload_pdf_to_s3 returns the key, or None when
\* s3.upload_file raises (as it does when the file is gone); on None
\* on_created raises Exception("Upload failed").
Upload(ok) ==
    /\ Running
    /\ hpc = "upload"
    /\ ok => dest_path[1] \in DOMAIN stored
    /\ LET key == S3Key(dest_path[1], created_time, clock)
       IN  IF ok
           THEN /\ s3' = (key :> stored[dest_path[1]]) @@ s3
                /\ h_s3_key' = << key >>
                /\ hpc' = "extract"
                /\ e' = e
           ELSE /\ s3' = s3
                /\ h_s3_key' = << >>
                /\ Raise("Upload failed")
    /\ UNCHANGED << dest_path, created_time, h_data, h_df, failed_list, mvars,
                    clock, physical_printer, docs, result, stored, queueFile,
                    excel, enqueued, succeeded, dropped >>

\* what extract_text_textract and get_kv_map read from the object at key
KvsAt(key) == docs[s3[key]].kvs

\* Lines 295-298 and 303-305: extraction raises, or yields data; data with
\* no value ends the run with a warning.
Extract(ok) ==
    /\ Running
    /\ hpc = "extract"
    /\ IF ok
       THEN LET data == extract_invoice_fields(KvsAt(h_s3_key[1]))
            IN  IF AnyValue(data)
                THEN /\ h_data' = << data >>
                     /\ hpc' = "sink"
                     /\ UNCHANGED << dest_path, created_time, h_s3_key, h_df,
                                     failed_list, e, result >>
                ELSE Return("returned", {"No valid data extracted"})
       ELSE /\ Raise("Textract failed")
            /\ UNCHANGED << dest_path, created_time, h_s3_key, h_data, h_df,
                            failed_list, result >>
    /\ UNCHANGED << mvars, clock, physical_printer, docs, stored, queueFile, s3,
                    excel, enqueued, succeeded, dropped >>

\* Lines 299-302 and save_to_excel lines 119-128: creating the directory in
\* on_created raises into on_created; inside save_to_excel the rows of the
\* table are read, and an exception there is caught and logged by
\* save_to_excel itself, which then returns normally.
Sink(fault) ==
    /\ Running
    /\ hpc = "sink"
    /\ IF fault = "makedirs"
       THEN /\ Raise("Excel_Files failed")
            /\ UNCHANGED << dest_path, created_time, h_s3_key, h_data, h_df,
                            failed_list, result >>
       ELSE IF fault = "read"
            THEN Return("returned", {"Error saving Excel"})
            ELSE /\ h_df' = << excel >>
                 /\ hpc' = "write"
                 /\ UNCHANGED << dest_path, created_time, h_s3_key, h_data,
                                 failed_list, e, result >>
    /\ UNCHANGED << mvars, clock, physical_printer, docs, stored, queueFile, s3,
                    excel, enqueued, succeeded, dropped >>

\* a bug: the raise of line 307 is reached after the record was written
SinkWriteThenRaise(ok) ==
    /\ Running
    /\ hpc = "write"
    /\ excel' = IF ok THEN Append(h_df[1], h_data[1]) ELSE excel
    /\ Logged(IF ok THEN {"Excel updated"} ELSE {"Error saving Excel"})
    /\ Raise("Upload failed")
    /\ UNCHANGED << dest_path, created_time, h_s3_key, h_data, h_df,
                    failed_list, mvars, clock, physical_printer, docs, stored,
                    queueFile, s3, enqueued, succeeded, dropped >>

\* save_to_excel lines 130-142: the rows read and the new row are written
\* over the table; to_excel raising is caught and logged the same way.
SinkWrite(ok) ==
    /\ Running
    /\ hpc = "write"
    /\ excel' = IF ok THEN Append(h_df[1], h_data[1]) ELSE excel
    /\ Return("returned", IF ok THEN {"Excel updated"} ELSE {"Error saving Excel"})
    /\ UNCHANGED << mvars, clock, physical_printer, docs, stored, queueFile, s3,
                    enqueued, succeeded, dropped >>

\* Lines 310-316: the except block logs the error, loads the list and builds
\* the new item.  json.load raises on a file that is being rewritten, and
\* the item cannot be built while dest_path or created_time is unbound:
\* either exception leaves on_created.
Except ==
    /\ Running
    /\ hpc = "except"
    /\ LET loaded == load_failed_uploads(queueFile)
       IN  IF ~loaded.ok \/ dest_path = << >> \/ created_time = << >>
           THEN Return("raised", {"Error processing PDF"})
           ELSE /\ failed_list' =
                      Append(loaded.value, [path |-> dest_path[1],
                                            created_time |-> created_time])
                /\ hpc' = "save"
                /\ Logged({"Error processing PDF"})
                /\ UNCHANGED << dest_path, created_time, h_s3_key, h_data,
                                h_df, e >>
    /\ UNCHANGED << mvars, clock, physical_printer, docs, stored, queueFile, s3,
                    excel, enqueued, succeeded, dropped >>

\* Line 317, save_failed_uploads line 154: open(path, 'w') empties the file.
SaveOpen ==
    /\ Running
    /\ hpc = "save"
    /\ queueFile' = [exists |-> TRUE, text |-> << >>]
    /\ hpc' = "dump"
    /\ UNCHANGED << dest_path, created_time, h_s3_key, h_data, h_df,
                    failed_list, e, mvars, clock, physical_printer, docs,
                    result, stored, s3, excel, enqueued, succeeded, dropped >>

\* save_failed_uploads line 155 and the close of the file
SaveDump ==
    /\ Running
    /\ hpc = "dump"
    /\ queueFile' = [exists |-> TRUE,
                     text |-> Overlay(Dump(failed_list), queueFile.text)]
    /\ enqueued' = enqueued \cup {failed_list[Len(failed_list)]}
    /\ Return("queued", {})
    /\ UNCHANGED << mvars, clock, physical_printer, docs, stored, s3, excel,
                    succeeded, dropped >>

(* ------------- main loop and retry_failed_uploads (main thread) -------- *)
\* retry_failed_uploads returns: its locals are gone
RetryReturn ==
    /\ mpc' = "sleep"
    /\ failed' = << >>
    /\ still_failed' = << >>
    /\ idx' = 1
    /\ m_s3_key' = << >>
    /\ m_data' = << >>
    /\ m_df' = << >>
    /\ verdict' = << >>

\* Lines 377-379: time.sleep(1) returns and main calls retry_failed_uploads.
Tick ==
    /\ mpc = "sleep"
    /\ mpc' = "probe"
    /\ UNCHANGED << failed, still_failed, idx, m_s3_key, m_data, m_df, verdict,
                    hvars, shared >>

\* a bug: offline, the pass skips the loop but still saves its empty list
ProbeThenSave(connected) ==
    /\ mpc = "probe"
    /\ mpc' = IF connected THEN "load" ELSE "save"
    /\ UNCHANGED << failed, still_failed, idx, m_s3_key, m_data, m_df, verdict,
                    hvars, shared >>

\* Lines 177-178: offline, the pass returns at once.
Probe(connected) ==
    /\ mpc = "probe"
    /\ mpc' = IF connected THEN "load" ELSE "sleep"
    /\ UNCHANGED << failed, still_failed, idx, m_s3_key, m_data, m_df, verdict,
                    hvars, shared >>

\* where the for loop of line 182 goes with position i: the next item, or
\* past the loop to save_failed_uploads
LoopAt(items, i) == IF i > Len(items) THEN "save" ELSE "item"

\* Lines 179-181: json.load raising leaves retry_failed_uploads and main,
\* whose try catches KeyboardInterrupt only.
RetryLoad ==
    /\ mpc = "load"
    /\ LET loaded == load_failed_uploads(queueFile)
       IN  IF loaded.ok
           THEN /\ failed' = loaded.value
                /\ mpc' = LoopAt(loaded.value, 1)
           ELSE /\ failed' = << >>
                /\ mpc' = "crashed"
    /\ UNCHANGED << still_failed, idx, m_s3_key, m_data, m_df, verdict, hvars,
                    shared >>

\* the loop moves on from the current item, logging how it went
Advance(how) ==
    /\ verdict' = Append(verdict, how)
    /\ idx' = idx + 1
    /\ mpc' = LoopAt(failed, idx + 1)
    /\ m_s3_key' = << >>
    /\ m_data' = << >>
    /\ m_df' = << >>

\* a bug: the item is put in front of still_failed
KeepInFront == still_failed' = << failed[idx] >> \o still_failed

\* a bug: the item is not appended to still_failed
KeepForgotten == still_failed' = still_failed

\* the current item is kept for the next pass
Keep == still_failed' = Append(still_failed, failed[idx])

\* Lines 183-187 and 202-205: a missing file is dropped with a warning; an
\* upload that returns None keeps the item.
RetryItem(ok) ==
    /\ mpc = "item"
    /\ LET item == failed[idx]
           key == S3Key(item.path, item.created_time, clock)
       IN  IF item.path \notin DOMAIN stored
           THEN /\ ok
                /\ Advance("missing")
                /\ UNCHANGED << still_failed, s3 >>
           ELSE IF ok
                THEN /\ s3' = (key :> stored[item.path]) @@ s3
                     /\ m_s3_key' = << key >>
                     /\ mpc' = "extract"
                     /\ UNCHANGED << still_failed, idx, verdict, m_data, m_df >>
                ELSE /\ Keep
                     /\ Advance("upload_failed")
                     /\ s3' = s3
    /\ UNCHANGED << failed, hvars, clock, physical_printer, docs, result,
                    stored, queueFile, excel, enqueued, succeeded, dropped >>

\* Lines 188-192 and 199-201: extraction raising keeps the item; data with
\* no value drops it without a record.
RetryExtract(ok) ==
    /\ mpc = "extract"
    /\ IF ok
       THEN LET data == extract_invoice_fields(KvsAt(m_s3_key[1]))
            IN  /\ IF AnyValue(data)
                   THEN /\ mpc' = "sink"
                        /\ m_data' = << data >>
                        /\ UNCHANGED << idx, verdict, succeeded, m_s3_key, m_df >>
                   ELSE /\ Advance("empty")
                        /\ succeeded' = succeeded \cup {failed[idx]}
                /\ still_failed' = still_failed
       ELSE /\ Keep
            /\ Advance("extract_failed")
            /\ succeeded' = succeeded
    /\ UNCHANGED << failed, hvars, clock, physical_printer, docs, result,
                    stored, queueFile, s3, excel, enqueued, dropped >>

\* Lines 193-196 and save_to_excel lines 119-128: creating the directory
\* raises into the try of line 188 and keeps the item; an exception while
\* the rows are read is caught inside save_to_excel and the item is dropped.
RetrySink(fault) ==
    /\ mpc = "sink"
    /\ IF fault = "makedirs"
       THEN /\ Keep
            /\ Advance("dir_failed")
            /\ succeeded' = succeeded
       ELSE IF fault = "read"
            THEN /\ Advance("sink_failed")
                 /\ still_failed' = still_failed
                 /\ succeeded' = succeeded \cup {failed[idx]}
            ELSE /\ m_df' = << excel >>
                 /\ mpc' = "write"
                 /\ UNCHANGED << still_failed, idx, verdict, m_s3_key, m_data,
                                 succeeded >>
    /\ UNCHANGED << failed, hvars, clock, physical_printer, docs, result,
                    stored, queueFile, s3, excel, enqueued, dropped >>

\* save_to_excel lines 130-142 and line 197: written or not, the item is
\* dropped.
RetrySinkWrite(ok) ==
    /\ mpc = "write"
    /\ excel' = IF ok THEN Append(m_df[1], m_data[1]) ELSE excel
    /\ Advance(IF ok THEN "recorded" ELSE "sink_failed")
    /\ succeeded' = succeeded \cup {failed[idx]}
    /\ UNCHANGED << failed, still_failed, hvars, clock, physical_printer, docs,
                    result, stored, queueFile, s3, enqueued, dropped >>

\* a bug: the file is opened for writing without being emptied (mode 'r+')
RetrySaveOpenKeeps ==
    /\ mpc = "save"
    /\ queueFile' = [exists |-> TRUE, text |-> queueFile.text]
    /\ mpc' = "dump"
    /\ UNCHANGED << failed, still_failed, idx, m_s3_key, m_data, m_df, verdict,
                    hvars, clock, physical_printer, docs, result, stored, s3,
                    excel, enqueued, succeeded, dropped >>

\* Line 206, save_failed_uploads line 154: open(path, 'w') empties the file.
RetrySaveOpen ==
    /\ mpc = "save"
    /\ queueFile' = [exists |-> TRUE, text |-> << >>]
    /\ mpc' = "dump"
    /\ UNCHANGED << failed, still_failed, idx, m_s3_key, m_data, m_df, verdict,
                    hvars, clock, physical_printer, docs, result, stored, s3,
                    excel, enqueued, succeeded, dropped >>

\* the items the pass found missing
MissingItems == {failed[i] : i \in {j \in 1..Len(verdict) : verdict[j] = "missing"}}

\* save_failed_uploads line 155 and the close of the file; the pass returns
RetrySaveDump ==
    /\ mpc = "dump"
    /\ queueFile' = [exists |-> TRUE,
                     text |-> Overlay(Dump(still_failed), queueFile.text)]
    /\ dropped' = dropped \cup MissingItems
    /\ RetryReturn
    /\ UNCHANGED << hvars, clock, physical_printer, docs, result, stored, s3,
                    excel, enqueued, succeeded >>

(* ---------------------------- environment ----------------------------- *)
\* A stored file is deleted from outside the program.  The code looks for a
\* stored file again only at os.path.exists (line 185), for the path of the
\* item the loop is at, so a deletion is followed from there: the file is
\* gone when the pass looks, and stays gone.
RemoveFile(path) ==
    /\ Running
    /\ path \in DOMAIN stored
    /\ mpc = "item"
    /\ failed[idx].path = path
    /\ stored' = [q \in DOMAIN stored \ {path} |-> stored[q]]
    /\ UNCHANGED << hvars, mvars, clock, physical_printer, docs, result,
                    queueFile, s3, excel, enqueued, succeeded, dropped >>

(* --------------------------- specification ---------------------------- *)
RelocateFaults == {"ok", "makedirs", "move", "chmod"}
ForwardResults == {"ok", "nonzero", "oserror"}
SinkFaults == {"ok", "makedirs", "read"}

Next ==
    \/ \E event \in Events : on_created(event)
    \/ \E fault \in RelocateFaults : Relocate(fault)
    \/ \E rc \in ForwardResults : Forward(rc)
    \/ \E connected \in BOOLEAN : Gate(connected)
    \/ \E ok \in BOOLEAN : Upload(ok)
    \/ \E ok \in BOOLEAN : Extract(ok)
    \/ \E fault \in SinkFaults : Sink(fault)
    \/ \E ok \in BOOLEAN : SinkWrite(ok)
    \/ Except
    \/ SaveOpen
    \/ SaveDump
    \/ Tick
    \/ \E connected \in BOOLEAN : Probe(connected)
    \/ RetryLoad
    \/ \E ok \in BOOLEAN : RetryItem(ok)
    \/ \E ok \in BOOLEAN : RetryExtract(ok)
    \/ \E fault \in SinkFaults : RetrySink(fault)
    \/ \E ok \in BOOLEAN : RetrySinkWrite(ok)
    \/ RetrySaveOpen
    \/ RetrySaveDump
    \/ \E path \in DOMAIN stored : RemoveFile(path)

Spec == Init /\ [][Next]_vars

(* ------------------------------ claims -------------------------------- *)
\* the persisted queue as load_failed_uploads would return it now
QueueReadable == load_failed_uploads(queueFile).ok
QueueSeq == load_failed_uploads(queueFile).value
Range(seq) == {seq[i] : i \in 1..Len(seq)}
QueueItems == Range(QueueSeq)

\* the runs of on_created that are over
Finished == {d \in 1..Len(result) : result[d].how # "running"}

\* the item that the run of event d would enqueue
ItemOf(d) == [path |-> result[d].dest_path[1],
              created_time |-> result[d].created_time]

\* the messages of the exceptions raised at or after the connectivity gate
GateOrLater == {"Offline", "Upload failed", "Textract failed"}

\* C1: a run of on_created that completed relocation and then failed at or
\* after the connectivity gate (offline, no key from the upload, extraction
\* raising) ends with exactly one item saved for its document, and the
\* item's path is dest_path.
C1_OneItemAtCanonicalPath ==
    [][(hpc \in {"except", "dump"} /\ e \in GateOrLater /\ hpc' = "idle")
        => /\ result'[Cur].how = "queued"
           /\ QueueSeq' = failed_list
           /\ Cardinality({i \in 1..Len(failed_list) :
                  failed_list[i].created_time = created_time}) = 1
           /\ failed_list[Len(failed_list)] =
                  [path |-> dest_path[1], created_time |-> created_time]]_vars

\* C2: a failure of save_to_excel to write the table always ends in an
\* enqueue-for-retry: on_created appends the document to the queue, and a
\* retry pass keeps the item in still_failed.
C2_SinkFailureEnqueues ==
    /\ \A d \in Finished :
          "Error saving Excel" \in result[d].log => result[d].how = "queued"
    /\ \A i \in 1..Len(verdict) :
          verdict[i] = "sink_failed" => failed[i] \in Range(still_failed)

\* C3: under every interleaving of the handler's enqueue and a retry pass,
\* an item that on_created enqueued stays in the persisted queue until a
\* retry pass that processed it succeeded on it or found its file missing.
C3_EnqueuedItemStays ==
    QueueReadable =>
        \A item \in enqueued :
            item \in QueueItems \/ item \in succeeded \/ item \in dropped

\* C4: no exception leaves on_created or retry_failed_uploads, whichever
\* step fails: the handler and the pass return normally and the main loop
\* keeps ticking.
C4_NoExceptionEscapes ==
    /\ \A d \in 1..Len(result) : result[d].how # "raised"
    /\ mpc # "crashed"

\* the log lines of a first attempt that went through step 5
SuccessLines == {"Excel updated", "No valid data extracted"}

\* C5: a document whose first attempt in on_created succeeds through
\* upload, extraction, normalization and record gets no failure-queue item,
\* ever: the run returns without entering the except block, and no item
\* with the document's created_time is saved or persisted.
C5_SuccessLeavesNoItem ==
    \A d \in 1..Len(result) :
        result[d].log \cap SuccessLines # {}
        => /\ result[d].how = "returned"
           /\ \A item \in enqueued \cup QueueItems :
                 item.created_time # result[d].created_time

\* C5 happens: a run recorded its document while another document's item
\* is in the persisted queue.
C5_Witness ==
    /\ QueueItems # {}
    /\ \E d \in Finished : "Excel updated" \in result[d].log

\* C6: once a retry of a queued item has succeeded, no later pass retries
\* that item: no pass gets a key for it again.
C6_NoRetryAfterSuccess ==
    mpc \in {"extract", "sink", "write"} => failed[idx] \notin succeeded

\* C7: an item whose file a retry pass found missing is absent from the
\* queue that the pass saves and does not reappear in the queue afterwards.
C7_MissingItemStaysOut ==
    QueueReadable => QueueItems \cap dropped = {}

\* the items of a pass whose logged outcome is one of kinds, in order
RECURSIVE Kept(_, _, _)
Kept(items, outcomes, kinds) ==
    IF items = << >> \/ outcomes = << >> THEN << >>
    ELSE (IF Head(outcomes) \in kinds THEN << Head(items) >> ELSE << >>)
         \o Kept(Tail(items), Tail(outcomes), kinds)

\* this step writes the text of items from the start of the queue file
WritesQueue(items) ==
    SubSeq(queueFile'.text, 1, Len(Dump(items))) = Dump(items)

\* C8 as claimed: a pass processes every item of the loaded queue, and the
\* queue it saves holds exactly the items whose upload returned no key or
\* whose extraction raised.
C8_SavedQueueIsUploadOrExtractFailures ==
    [][(mpc = "dump" /\ mpc' = "sleep")
        => /\ Len(verdict) = Len(failed)
           /\ still_failed = Kept(failed, verdict,
                                  {"upload_failed", "extract_failed"})
           /\ WritesQueue(still_failed)]_vars

\* C8 as amended: a pass processes every item of the loaded queue, whatever
\* happened to the earlier ones, and the queue it writes at its end holds
\* exactly the items whose upload returned no key, whose extraction raised,
\* or for which creating the table's directory raised, in their order;
\* items that succeeded and items whose file is missing are not in it.
C8_SavedQueueIsFailures ==
    [][(mpc = "dump" /\ mpc' = "sleep")
        => /\ Len(verdict) = Len(failed)
           /\ still_failed = Kept(failed, verdict,
                                  {"upload_failed", "extract_failed",
                                   "dir_failed"})
           /\ WritesQueue(still_failed)]_vars

\* C8 happens: a pass is saving after an item failed and a later item of the
\* same pass succeeded or was found missing.
C8_Witness ==
    /\ mpc = "dump"
    /\ \E i \in 1..Len(verdict) : \E j \in (i + 1)..Len(verdict) :
          /\ verdict[i] \in {"upload_failed", "extract_failed", "dir_failed"}
          /\ verdict[j] \in {"recorded", "missing", "empty"}

\* a record that is worth a row: some normalized field is a non-empty text
Usable(record) == \E f \in FieldSet : record[f] # ""

\* C9: the sink is called only with data that has a non-empty field, so the
\* table holds no all-empty row; when upload and extraction succeed and
\* every field is empty, on_created writes no record and enqueues nothing,
\* and a retry pass drops the item.
C9_OnlyUsableRecords ==
    /\ hpc \in {"sink", "write"} => Usable(h_data[1])
    /\ mpc \in {"sink", "write"} => Usable(m_data[1])
    /\ \A i \in 1..Len(excel) : Usable(excel[i])
    /\ \A d \in 1..Len(result) :
          "No valid data extracted" \in result[d].log
          => /\ result[d].how = "returned"
             /\ "Excel updated" \notin result[d].log
             /\ \A item \in enqueued \cup QueueItems :
                   item.created_time # result[d].created_time
    /\ \A i \in 1..Len(verdict) :
          verdict[i] = "empty" => failed[i] \notin Range(still_failed)

\* C9 happens: a first attempt ended with no usable field, and a retry pass
\* dropped an item for the same reason.
C9_Witness ==
    /\ \E d \in Finished : "No valid data extracted" \in result[d].log
    /\ \E i \in 1..Len(verdict) : verdict[i] = "empty"

\* C10: a failure of the forward-to-device step does not block the rest of
\* the run: the connectivity gate is evaluated next.
C10_ForwardFailureGoesOn ==
    [][(Forward("nonzero") \/ Forward("oserror")) => hpc' = "gate"]_vars

\* the created_time and dest_path of the run of event d, running or over
TimeOf(d) == IF d = Cur /\ hpc # "idle" THEN created_time
             ELSE result[d].created_time
PathOf(d) == IF d = Cur /\ hpc # "idle" THEN dest_path ELSE result[d].dest_path

\* the runs of on_created that completed the relocation of their document
Relocated == {d \in 1..Len(result) : TimeOf(d) # << >>}

\* the runs of on_created that relocated their document and saved an item
Queued == {d \in 1..Len(result) :
              result[d].how = "queued" /\ result[d].created_time # << >>}

\* C11: when the Relocate step fails (makedirs, move or chmod raises) the
\* run logs the error and is over without coming to the save of the queue,
\* which it leaves as it was; every item that is ever built, saved or
\* persisted carries the dest_path of a document whose relocation completed.
C11_RelocateFailureAbandons ==
    /\ e = "Relocate failed" => hpc = "except"
    /\ \A d \in Finished :
          result[d].created_time = << >>
          => /\ result[d].how = "raised"
             /\ "Error processing PDF" \in result[d].log
    /\ \A item \in enqueued \cup QueueItems \cup Range(failed_list) :
          \E d \in Relocated :
              item = [path |-> PathOf(d)[1], created_time |-> TimeOf(d)]

\* C11 happens: a run whose relocation failed is over while the persisted
\* queue holds the item of another document.
C11_Witness ==
    /\ QueueItems # {}
    /\ \E d \in Finished :
          result[d].how = "raised" /\ result[d].created_time = << >>

\* C12: every upload of a document goes to one storage key,
\* {date}/{created_time}_{filename} with the created_time that on_created
\* took for it: the first attempt and every retry of its queue item use
\* that value, so the bucket never holds two keys with one created_time.
C12_OneKeyPerDocument ==
    /\ \A k \in DOMAIN s3 :
          \E d \in 1..Len(result) :
              /\ TimeOf(d) # << >>
              /\ k = [date_folder |-> TimeOf(d)[1],
                      created_time |-> TimeOf(d),
                      filename |-> PathOf(d)[1].name]
    /\ \A k1, k2 \in DOMAIN s3 : k1.created_time = k2.created_time => k1 = k2
    /\ h_s3_key # << >> => h_s3_key[1].created_time = created_time
    /\ m_s3_key # << >>
       => /\ failed[idx] \in enqueued
          /\ m_s3_key[1].created_time = failed[idx].created_time
          /\ m_s3_key[1].date_folder = failed[idx].created_time[1]
          /\ m_s3_key[1].filename = failed[idx].path.name

\* C12 happens: a retry pass has uploaded a queued document at a later
\* second than the one in which on_created took its created_time.
C12_Witness ==
    /\ mpc = "extract"
    /\ m_s3_key # << >>
    /\ Strftime(clock) # failed[idx].created_time

\* C13: a retry pass whose connectivity probe is false is over at once:
\* it goes back to sleep without loading the queue, without an upload, an
\* extraction or a sink call, and the persisted queue is as it was.
C13_OfflinePassSkipped ==
    [][(Probe(FALSE) \/ (mpc = "probe" /\ mpc' \notin {"probe", "load"}))
        => /\ mpc' = "sleep"
           /\ UNCHANGED << queueFile, s3, excel, stored, failed, still_failed,
                           verdict, m_s3_key, m_data, m_df, succeeded,
                           dropped >>]_vars

\* C13 happens: a pass is at its probe while the persisted queue holds an
\* item, so that a pass that went on would have work to do.
C13_Witness ==
    /\ mpc = "probe"
    /\ QueueItems # {}

\* on_created comes to step to from another step
Enters(to) == hpc' = to /\ hpc # to

\* C14: within one run of on_created the steps come in order: the file is
\* moved and readable at dest_path before forwarding, forwarding comes
\* before the connectivity gate, the upload only after the gate said
\* online, the extraction only after an upload that returned a key, the
\* sink only after an extraction that returned data; a gate that says
\* offline leads to the except block with no upload, extraction or sink.
C14_StepOrder ==
    [][/\ Enters("forward")
          => /\ hpc = "relocate"
             /\ dest_path' # << >>
             /\ created_time' # << >>
             /\ dest_path'[1] \in DOMAIN stored'
             /\ stored'[dest_path'[1]] = Cur
       /\ Enters("gate") => hpc = "forward"
       /\ Enters("upload") => hpc = "gate" /\ ~Gate(FALSE)
       /\ Enters("extract")
          => /\ hpc = "upload"
             /\ h_s3_key' # << >>
             /\ h_s3_key'[1] \in DOMAIN s3'
       /\ Enters("sink") => hpc = "extract" /\ h_data' # << >>
       /\ Enters("write") => hpc = "sink"
       /\ Gate(FALSE) => hpc' = "except" /\ e' = "Offline"
       /\ e' = "Offline"
          => /\ hpc' \in {"except", "save", "dump"}
             /\ h_s3_key' = << >>
             /\ h_data' = << >>
             /\ h_df' = << >>]_vars

\* C14 happens: one run went through every step and wrote its record, and
\* the gate of a later run said offline.
C14_Witness ==
    /\ hpc = "except"
    /\ e = "Offline"
    /\ \E d \in Finished : "Excel updated" \in result[d].log

\* C15: a relocated document whose extraction yields a non-empty field and
\* whose file is on disk is in the persisted queue for as long as the sink
\* has appended no record: with no run and no pass under way and no row in
\* the table, its item is in the queue, from where a later pass records it.
C15_NoSilentLoss ==
    (hpc = "idle" /\ mpc = "sleep" /\ excel = << >>)
    => \A d \in 1..Len(result) :
          (/\ result[d].created_time # << >>
           /\ Usable(extract_invoice_fields(docs[d].kvs))
           /\ result[d].dest_path[1] \in DOMAIN stored
           /\ stored[result[d].dest_path[1]] = d)
          => ItemOf(d) \in QueueItems

(* ------------------- the normalizer on its own ------------------------ *)
\* entries of the raw mappings that get_kv_map can return
MaxPairs == 2

\* labels as they are printed on invoices
RawKeys ==
    {<< "I", "n", "v", "o", "i", "c", "e", " ", "N", "o" >>,
     << "I", "N", "V", "O", "I", "C", "E", " ", "N", "U", "M", "B", "E", "R" >>,
     << "D", "a", "t", "e" >>,
     << "D", "A", "T", "E", "D" >>,
     << "S", "u", "b", " ", "T", "o", "t", "a", "l" >>,
     << "R", "e", "m", "a", "r", "k", "s" >>}
RawValues == {"", "INV-1", "42"}
RawEntries == [key : RawKeys, value : RawValues]

\* the dicts of at most MaxPairs entries: their keys are distinct
RawMappings ==
    UNION {{m \in [1..n -> RawEntries] :
               \A i, j \in 1..n : i < j => m[i].key # m[j].key} :
           n \in 0..MaxPairs}

\* A document with any of the raw mappings has been uploaded and extracted.
InitNormalize ==
    /\ clock = 0
    /\ physical_printer = FALSE
    /\ \E kvs \in RawMappings :
          docs = << [is_directory |-> FALSE, name |-> PlainName, kvs |-> kvs] >>
    /\ result = << >>
    /\ stored = NoFiles
    /\ queueFile = [exists |-> FALSE, text |-> << >>]
    /\ s3 = NoFiles
    /\ excel = << >>
    /\ hpc = "extract"
    /\ dest_path = << >>
    /\ created_time = << >>
    /\ h_s3_key = << >>
    /\ h_data = << >>
    /\ h_df = << >>
    /\ failed_list = << >>
    /\ e = ""
    /\ mpc = "sleep"
    /\ failed = << >>
    /\ still_failed = << >>
    /\ idx = 1
    /\ m_s3_key = << >>
    /\ m_data = << >>
    /\ m_df = << >>
    /\ verdict = << >>
    /\ enqueued = {}
    /\ succeeded = {}
    /\ dropped = {}

\* Line 297: data = extract_invoice_fields(kvs)
Normalize ==
    /\ hpc = "extract"
    /\ h_data' = << extract_invoice_fields(docs[1].kvs) >>
    /\ hpc' = "sink"
    /\ UNCHANGED << dest_path, created_time, h_s3_key, h_df, failed_list, e,
                    mvars, shared >>

NextNormalize == Normalize

SpecNormalize == InitNormalize /\ [][NextNormalize]_vars

\* the positions of the raw keys that contain, whatever the case of the
\* letters, one of the synonyms of field f
Matching(kvs, f) ==
    {k \in 1..Len(kvs) :
        \E n \in 1..Len(Synonyms[f]) :
            Contains(Lower(Synonyms[f][n]), Lower(kvs[k].key))}

\* C16: extract_invoice_fields returns exactly the 14 canonical keys; each
\* field has the value of the first key of the raw mapping that matches,
\* case-insensitively, one of the field's synonyms, and "" when no key
\* matches; the empty mapping gives 14 empty fields, and
\* {"Invoice No": "INV-1"} gives Invoice Number alone a value.
C16_Normalize ==
    h_data # << >>
    => LET data == h_data[1]
           kvs == docs[1].kvs
       IN  /\ DOMAIN data = FieldSet
           /\ Cardinality(DOMAIN data) = 14
           /\ \A f \in FieldSet :
                 /\ Matching(kvs, f) = {} => data[f] = ""
                 /\ \A k \in Matching(kvs, f) :
                       (\A j \in Matching(kvs, f) : k <= j)
                       => data[f] = kvs[k].value
           /\ kvs = << >> => \A f \in FieldSet : data[f] = ""
           /\ kvs = InvoiceKvs
              => /\ data["Invoice Number"] = "INV-1"
                 /\ \A f \in FieldSet \ {"Invoice Number"} : data[f] = ""

\* C16 happens: a mapping with two keys that match one field, with
\* different values, has been normalized.
C16_Witness ==
    /\ h_data # << >>
    /\ \E f \in FieldSet :
          /\ Matching(docs[1].kvs, f) = {1, 2}
          /\ docs[1].kvs[1].value # docs[1].kvs[2].value
          /\ docs[1].kvs[1].value # ""

\* the name that the spec gives a relocated file: the stem before the
\* double underscore with the .pdf extension, or the name as it is
Canonical(raw_name) ==
    IF Contains(Marker, raw_name)
    THEN SplitFirst(raw_name, Marker) \o DotPdf
    ELSE raw_name

\* C17: Relocate strips only the spooler's suffix: <stem>__<suffix>.pdf is
\* stored as <stem>.pdf under the directory of the date, and a name without
\* the double underscore is stored unchanged.
C17_OnlySuffixStripped ==
    \A d \in 1..Len(result) :
        PathOf(d) # << >> => PathOf(d)[1].name = Canonical(docs[d].name)

(* ------------------- the queue file on its own ------------------------ *)
\* items of the lists that are saved and of the files that are there before
MaxItems == 2

\* items as on_created builds them
ItemPool ==
    {[path |-> [dir |-> 0, name |-> << "a" >>], created_time |-> << 0, 1 >>],
     [path |-> [dir |-> 0, name |-> PlainName], created_time |-> << 0, 2 >>],
     [path |-> [dir |-> 1, name |-> PlainName], created_time |-> << 1, 0 >>]}
ItemLists == UNION {[1..n -> ItemPool] : n \in 0..MaxItems}

\* failed_uploads.json before the save: not there, empty, or holding a list
PreviousFiles ==
    {[exists |-> FALSE, text |-> << >>], [exists |-> TRUE, text |-> << >>]}
    \cup {[exists |-> TRUE, text |-> Dump(items)] : items \in ItemLists}

\* A pass with connectivity has kept every item it loaded and is about to
\* save them; no run of on_created is under way.
InitQueue ==
    /\ clock = 0
    /\ physical_printer = FALSE
    /\ docs = << >>
    /\ result = << >>
    /\ stored = NoFiles
    /\ queueFile \in PreviousFiles
    /\ s3 = NoFiles
    /\ excel = << >>
    /\ hpc = "idle"
    /\ dest_path = << >>
    /\ created_time = << >>
    /\ h_s3_key = << >>
    /\ h_data = << >>
    /\ h_df = << >>
    /\ failed_list = << >>
    /\ e = ""
    /\ mpc = "save"
    /\ failed \in ItemLists
    /\ still_failed = failed
    /\ idx = Len(failed) + 1
    /\ m_s3_key = << >>
    /\ m_data = << >>
    /\ m_df = << >>
    /\ verdict = [i \in 1..Len(failed) |-> "upload_failed"]
    /\ enqueued = Range(failed)
    /\ succeeded = {}
    /\ dropped = {}

NextQueue == RetrySaveOpen \/ RetrySaveDump

SpecQueue == InitQueue /\ [][NextQueue]_vars

\* C18: load_failed_uploads returns the empty list, without raising, when
\* failed_uploads.json does not exist, and after save_failed_uploads(items)
\* it returns exactly items, in order, whatever the file held before.
C18_LoadSaveRoundTrip ==
    [][/\ ~queueFile.exists
          => load_failed_uploads(queueFile) = [ok |-> TRUE, value |-> << >>]
       /\ (mpc = "dump" /\ mpc' = "sleep")
          => load_failed_uploads(queueFile')
                 = [ok |-> TRUE, value |-> still_failed]]_vars

\* C18 happens: a list of two different items has been saved and loads.
C18_Witness ==
    /\ mpc = "sleep"
    /\ QueueReadable
    /\ Len(QueueSeq) = 2
    /\ QueueSeq[1] # QueueSeq[2]

\* C19: the path of a queued item designates the stored file of the
\* document enqueued under it: relocating a later document never replaces
\* the stored file of an earlier one, so that two documents never have the
\* same canonical path.
C19_PathsNotShared ==
    /\ \A d1, d2 \in Relocated : d1 # d2 => PathOf(d1) # PathOf(d2)
    /\ \A d \in Queued :
          (QueueReadable /\ ItemOf(d) \in QueueItems
              /\ result[d].dest_path[1] \in DOMAIN stored)
          => stored[result[d].dest_path[1]] = d

\* a is b with some of its elements left out
RECURSIVE IsSubseq(_, _)
IsSubseq(a, b) ==
    IF a = << >> THEN TRUE
    ELSE IF b = << >> THEN FALSE
    ELSE IF Head(a) = Head(b) THEN IsSubseq(Tail(a), Tail(b))
    ELSE IsSubseq(a, Tail(b))

\* C20: queue mutations preserve the other items.  The list that a retry
\* pass builds and writes is the list it loaded with some items left out:
\* nothing added, nothing reordered, the kept items unchanged.  The list
\* that on_created writes is the list it loaded, unchanged and in place,
\* with its one item at the end.
C20_OtherItemsPreserved ==
    [][/\ (mpc = "load" /\ mpc' \notin {"load", "crashed"})
          => failed' = QueueSeq
       /\ IsSubseq(still_failed', failed')
       /\ (mpc = "dump" /\ mpc' = "sleep")
          => IsSubseq(still_failed, failed) /\ WritesQueue(still_failed)
       /\ (hpc = "except" /\ hpc' = "save")
          => failed_list' = QueueSeq \o << [path |-> dest_path[1],
                                            created_time |-> created_time] >>
       /\ (hpc = "dump" /\ hpc' = "idle") => WritesQueue(failed_list)]_vars

\* C20 happens: a pass that kept two items is writing them.
C20_Witness ==
    /\ mpc = "dump"
    /\ Len(still_failed) = 2

====
